---- MODULE Spec2Model ----
(***************************************************************************)
(* A model of src/gelf/gelf_reader.rs: the GELF reader (to_gelf,           *)
(* GelfLevel::from_str, GelfDataWrapper::from_slice / to_string) and the   *)
(* GelfReaderActor worker pool that applies it to incoming byte buffers.   *)
(*                                                                         *)
(* Rust strings are sequences of characters; each character is a one-      *)
(* character TLA+ string and Utf8Len gives the number of bytes it takes,   *)
(* so that byte offsets (str::split_at) mean what they mean in the code.   *)
(***************************************************************************)
EXTENDS Integers, Sequences, FiniteSets

VARIABLES buf, result, text, reparsed, pc, mailbox, workers, requests, replies

reader_vars == <<buf, result, text, reparsed, pc>>
pool_vars == <<mailbox, workers, requests, replies>>
vars == <<buf, result, text, reparsed, pc, mailbox, workers, requests, replies>>

(***************************************************************************)
(* Bounds of the model.                                                    *)
(***************************************************************************)
\* the largest number of non-mandatory keys in an input document
MaxExtra == 2
\* the number of worker threads handed to GelfReaderActor::new
Threads == 2
\* the number of messages sent to the pool
MaxRequests == 3

(***************************************************************************)
(* Strings.                                                                *)
(***************************************************************************)
\* characters that take more than one byte in UTF-8
MultiByteChars == {"é"}

Utf8Len(c) == IF c \in MultiByteChars THEN 2 ELSE 1

RECURSIVE ByteLen(_)
ByteLen(s) == IF s = <<>> THEN 0 ELSE Utf8Len(Head(s)) + ByteLen(Tail(s))

\* str::is_char_boundary: byte offset mid is the start of a character or the
\* end of the string
is_char_boundary(s, mid) ==
    \E i \in 0..Len(s) : ByteLen(SubSeq(s, 1, i)) = mid

\* str::split_at: panics when mid is past the end or inside a character
split_at(s, mid) ==
    IF ~is_char_boundary(s, mid)
    THEN [kind |-> "Panic"]
    ELSE LET i == CHOOSE j \in 0..Len(s) : ByteLen(SubSeq(s, 1, j)) = mid
         IN  [kind |-> "Ok", head |-> SubSeq(s, 1, i),
              tail |-> SubSeq(s, i + 1, Len(s))]

host == <<"h", "o", "s", "t">>
level == <<"l", "e", "v", "e", "l">>
short_message == <<"s", "h", "o", "r", "t", "_", "m", "e", "s", "s", "a", "g", "e">>
timestamp == <<"t", "i", "m", "e", "s", "t", "a", "m", "p">>
version == <<"v", "e", "r", "s", "i", "o", "n">>
meta == <<"m", "e", "t", "a">>
mechanism_data == <<"m", "e", "c", "h", "a", "n", "i", "s", "m", "_", "d", "a", "t", "a">>

gelf_fields == {host, level, short_message, timestamp, version}

(***************************************************************************)
(* serde_json::Value and serde_json::Number.                               *)
(***************************************************************************)
PosInt(n) == [kind |-> "PosInt", n |-> n]
NegInt(n) == [kind |-> "NegInt", n |-> n]
\* an f64 that is a multiple of one half: (-1)^neg * (whole + half / 2)
Float(neg, whole, half) == [kind |-> "Float", neg |-> neg, whole |-> whole, half |-> half]

Null == [type |-> "Null"]
Bool(b) == [type |-> "Bool", b |-> b]
Number(n) == [type |-> "Number", n |-> n]
String(s) == [type |-> "String", s |-> s]
Array(a) == [type |-> "Array", a |-> a]
Object(m) == [type |-> "Object", m |-> m]

\* Value::as_str
as_str(v) == IF v.type = "String" THEN [kind |-> "Some", val |-> v.s] ELSE [kind |-> "None"]

\* Value::as_f64 -> Number::as_f64: an integer is cast to f64.  The cast is
\* exact for the integers of the model, which are below 2^53 in magnitude.
as_f64(v) ==
    IF v.type # "Number" THEN [kind |-> "None"]
    ELSE CASE v.n.kind = "PosInt" -> [kind |-> "Some", val |-> Float(FALSE, v.n.n, 0)]
           [] v.n.kind = "NegInt" -> [kind |-> "Some", val |-> Float(TRUE, 0 - v.n.n, 0)]
           [] v.n.kind = "Float" -> [kind |-> "Some", val |-> v.n]

DigitChar == <<"0", "1", "2", "3", "4", "5", "6", "7", "8", "9">>

RECURSIVE Digits(_)
Digits(n) == IF n < 10 THEN <<DigitChar[n + 1]>>
             ELSE Digits(n \div 10) \o <<DigitChar[(n % 10) + 1]>>

\* Display for Number: integers in decimal, floats with their fraction
number_to_string(n) ==
    CASE n.kind = "PosInt" -> Digits(n.n)
      [] n.kind = "NegInt" -> <<"-">> \o Digits(0 - n.n)
      [] n.kind = "Float" ->
            (IF n.neg THEN <<"-">> ELSE <<>>) \o Digits(n.whole)
            \o <<".">> \o (IF n.half = 1 THEN <<"5">> ELSE <<"0">>)

\* Display for Value (Value::to_string): the compact JSON text of the value.
\* A string is written between double quotes (the strings of the model have
\* no character that is escaped).  Arrays and objects do not
\* occur as mandatory fields' values in the model and are written as their
\* brackets only.
value_to_string(v) ==
    CASE v.type = "Null" -> <<"n", "u", "l", "l">>
      [] v.type = "Bool" -> IF v.b THEN <<"t", "r", "u", "e">> ELSE <<"f", "a", "l", "s", "e">>
      [] v.type = "Number" -> number_to_string(v.n)
      [] v.type = "String" -> <<"\"">> \o v.s \o <<"\"">>
      [] v.type = "Array" -> <<"[", "]">>
      [] v.type = "Object" -> <<"{", "}">>

(***************************************************************************)
(* Results and errors.                                                     *)
(***************************************************************************)
Ok(x) == [kind |-> "Ok", val |-> x]
Err(e) == [kind |-> "Err", err |-> e]
Panic == [kind |-> "Panic"]
None == [kind |-> "None"]

missing_field(f) == [error |-> "missing_field", field |-> f]
invalid_type(unexp, exp) == [error |-> "invalid_type", unexpected |-> unexp, expected |-> exp]
invalid_value(unexp, exp) == [error |-> "invalid_value", unexpected |-> unexp, expected |-> exp]
\* the errors of serde_json::from_slice itself
syntax_error == [error |-> "syntax"]
not_a_map == [error |-> "invalid_type", unexpected |-> "value", expected |-> "a map"]

(***************************************************************************)
(* GelfLevel.                                                              *)
(***************************************************************************)
GelfLevel == <<"Emergency", "Alert", "Critical", "Error", "Warning", "Notice",
               "Informational", "Debug">>

\* impl FromStr for GelfLevel
from_str(s) ==
    CASE s = <<"0">> -> Ok("Emergency")
      [] s = <<"1">> -> Ok("Alert")
      [] s = <<"2">> -> Ok("Critical")
      [] s = <<"3">> -> Ok("Error")
      [] s = <<"4">> -> Ok("Warning")
      [] s = <<"5">> -> Ok("Notice")
      [] s = <<"6">> -> Ok("Informational")
      [] s = <<"7">> -> Ok("Debug")
      [] OTHER -> Err(invalid_value(level, "integers from 0 to 7"))

(***************************************************************************)
(* serde_json::Map<String, Value>: a function from keys to values.         *)
(***************************************************************************)
EmptyMap == [k \in {} |-> Null]

\* Map::insert
insert(m, k, v) == [x \in (DOMAIN m) \cup {k} |-> IF x = k THEN v ELSE m[x]]

\* Map::get
get(m, k) == IF k \in DOMAIN m THEN [kind |-> "Some", val |-> m[k]] ELSE None

(***************************************************************************)
(* to_gelf.                                                                *)
(***************************************************************************)
\* route, were the key put in meta with its underscore
route_unstripped(acc, k, v) ==
    LET parts == split_at(k, 1)
    IN  IF parts.kind = "Panic"
        THEN [acc EXCEPT !.panicked = TRUE]
        ELSE IF parts.head = <<"_">>
        THEN [acc EXCEPT !.meta = insert(acc.meta, k, v)]
        ELSE IF k \notin gelf_fields
        THEN [acc EXCEPT !.mechanism_data = insert(acc.mechanism_data, k, v)]
        ELSE acc

\* route, were the guard on gelf_fields left out of the second arm
route_unguarded(acc, k, v) ==
    LET parts == split_at(k, 1)
    IN  IF parts.kind = "Panic"
        THEN [acc EXCEPT !.panicked = TRUE]
        ELSE IF parts.head = <<"_">>
        THEN [acc EXCEPT !.meta = insert(acc.meta, parts.tail, v)]
        ELSE [acc EXCEPT !.mechanism_data = insert(acc.mechanism_data, k, v)]

\* the closure of data.iter().for_each: one key and its value, routed by the
\* match on k.split_at(1); acc holds the two maps being built
route(acc, k, v) ==
    LET parts == split_at(k, 1)
    IN  IF parts.kind = "Panic"
        THEN [acc EXCEPT !.panicked = TRUE]
        ELSE IF parts.head = <<"_">>
        THEN [acc EXCEPT !.meta = insert(acc.meta, parts.tail, v)]
        ELSE IF k \notin gelf_fields
        THEN [acc EXCEPT !.mechanism_data = insert(acc.mechanism_data, k, v)]
        ELSE acc

\* data.iter().for_each(...): the keys are visited one after the other; a
\* panic of the closure ends the loop
RECURSIVE for_each(_, _, _)
for_each(data, todo, acc) ==
    IF todo = {} \/ acc.panicked THEN acc
    ELSE LET k == CHOOSE x \in todo : TRUE
         IN  for_each(data, todo \ {k}, route(acc, k, data[k]))

\* str_field, were the value written with to_string, as level is
str_field_display(data, name) ==
    LET f == get(data, name)
    IN  IF f.kind = "None" THEN Err(missing_field(name))
        ELSE IF f.val.type # "String" THEN Err(invalid_type(name, "string"))
        ELSE Ok(value_to_string(f.val))

\* data.get(name).ok_or_else(missing_field)?.as_str().ok_or_else(invalid_type)?.to_string()
str_field(data, name) ==
    LET f == get(data, name)
    IN  IF f.kind = "None" THEN Err(missing_field(name))
        ELSE LET s == as_str(f.val)
             IN  IF s.kind = "None" THEN Err(invalid_type(name, "string"))
                 ELSE Ok(s.val)

\* data.get("level").ok_or_else(missing_field)?.to_string().parse::<GelfLevel>()?
level_field(data) ==
    LET f == get(data, level)
    IN  IF f.kind = "None" THEN Err(missing_field(level))
        ELSE from_str(value_to_string(f.val))

\* data.get("timestamp").ok_or_else(missing_field)?.as_f64().ok_or_else(invalid_type)?
timestamp_field(data) ==
    LET f == get(data, timestamp)
    IN  IF f.kind = "None" THEN Err(missing_field(timestamp))
        ELSE LET t == as_f64(f.val)
             IN  IF t.kind = "None" THEN Err(invalid_type(timestamp, "u8"))
                 ELSE Ok(t.val)

\* to_gelf: the routing loop, then the five mandatory fields in the order of
\* the struct literal; the first error is returned
to_gelf(data) ==
    LET acc == for_each(data, DOMAIN data,
                        [meta |-> EmptyMap, mechanism_data |-> EmptyMap, panicked |-> FALSE])
        h == str_field(data, host)
        l == level_field(data)
        s == str_field(data, short_message)
        t == timestamp_field(data)
        v == str_field(data, version)
    IN  IF acc.panicked THEN Panic
        ELSE IF h.kind = "Err" THEN h
        ELSE IF l.kind = "Err" THEN l
        ELSE IF s.kind = "Err" THEN s
        ELSE IF t.kind = "Err" THEN t
        ELSE IF v.kind = "Err" THEN v
        ELSE Ok([host |-> h.val, level |-> l.val, short_message |-> s.val,
                 timestamp |-> t.val, version |-> v.val,
                 meta |-> acc.meta, mechanism_data |-> acc.mechanism_data])

(***************************************************************************)
(* GelfDataWrapper.  A byte buffer is either bytes that are not JSON or    *)
(* the JSON text of a document.                                            *)
(***************************************************************************)
Garbage == [bytes |-> "garbage"]
Json(doc) == [bytes |-> "json", doc |-> doc]

\* serde_json::from_slice::<Map<String, Value>>
decode_map(b) ==
    IF b.bytes = "garbage" THEN Err(syntax_error)
    ELSE IF b.doc.type # "Object" THEN Err(not_a_map)
    ELSE Ok(b.doc.m)

\* GelfDataWrapper::from_slice
from_slice(b) ==
    LET data == decode_map(b)
    IN  IF data.kind = "Err" THEN data ELSE to_gelf(data.val)

\* the name of each GelfLevel variant, as derive(Serialize) writes it
variant_name(l) ==
    CASE l = "Emergency" -> <<"E", "m", "e", "r", "g", "e", "n", "c", "y">>
      [] l = "Alert" -> <<"A", "l", "e", "r", "t">>
      [] l = "Critical" -> <<"C", "r", "i", "t", "i", "c", "a", "l">>
      [] l = "Error" -> <<"E", "r", "r", "o", "r">>
      [] l = "Warning" -> <<"W", "a", "r", "n", "i", "n", "g">>
      [] l = "Notice" -> <<"N", "o", "t", "i", "c", "e">>
      [] l = "Informational" -> <<"I", "n", "f", "o", "r", "m", "a", "t", "i", "o", "n", "a", "l">>
      [] l = "Debug" -> <<"D", "e", "b", "u", "g">>

\* serialize_level, were the variant written as its discriminant
serialize_level_code(l) ==
    Number(PosInt((CHOOSE i \in 1..Len(GelfLevel) : GelfLevel[i] = l) - 1))

\* derive(Serialize) for GelfLevel: a unit variant is written as its name
serialize_level(l) == String(variant_name(l))

\* serialize_gelf, were meta and mechanism_data flattened into the object
serialize_gelf_flat(d) ==
    Object([k \in {host, level, short_message, timestamp, version}
                  \cup {<<"_">> \o n : n \in DOMAIN d.meta} \cup DOMAIN d.mechanism_data |->
        CASE k = host -> String(d.host)
          [] k = level -> serialize_level(d.level)
          [] k = short_message -> String(d.short_message)
          [] k = timestamp -> Number(d.timestamp)
          [] k = version -> String(d.version)
          [] k # <<>> /\ Head(k) = "_" -> d.meta[Tail(k)]
          [] OTHER -> d.mechanism_data[k]])

\* derive(Serialize) for GelfData: one entry per field of the struct, under
\* the field's name
serialize_gelf(d) ==
    Object([k \in {host, level, short_message, timestamp, version, meta, mechanism_data} |->
        CASE k = host -> String(d.host)
          [] k = level -> serialize_level(d.level)
          [] k = short_message -> String(d.short_message)
          [] k = timestamp -> Number(d.timestamp)
          [] k = version -> String(d.version)
          [] k = meta -> Object(d.meta)
          [] k = mechanism_data -> Object(d.mechanism_data)])

\* GelfDataWrapper::to_string: serde_json::to_string(&self.data).unwrap()
to_string(d) == Json(serialize_gelf(d))

(***************************************************************************)
(* The input documents of the model.                                       *)
(***************************************************************************)
\* a mandatory field that the document does not have
Absent == [type |-> "Absent"]

HostValues == {Absent, String(<<"a">>), String(<<>>), Number(PosInt(1))}

LevelValues == {Absent, Number(PosInt(0)), Number(PosInt(5)), Number(PosInt(7)),
                Number(PosInt(8)), Number(NegInt(0 - 1)), Number(Float(FALSE, 5, 0)),
                String(<<"5">>), String(<<"n", "o", "t", "i", "c", "e">>),
                String(<<"0", "8">>)}

ShortMessageValues == {Absent, String(<<"m">>), Null}

TimestampValues == {Absent, Number(PosInt(1582213226)), Number(Float(FALSE, 1, 1)),
                    String(<<"1">>)}

VersionValues == {Absent, String(<<"1", ".", "1">>), Bool(TRUE)}

\* keys other than the mandatory ones: with one or two leading underscores,
\* without, hiding a mandatory name, of length zero, starting with a
\* character of two bytes
ExtraKeys == {<<"_", "a">>, <<"a">>, <<"_", "_", "a">>, <<"_">> \o host,
              <<>>, <<"é", "a">>}

ExtraValues == {String(<<"x">>), Number(PosInt(2))}

\* the document with the mandatory fields h, l, s, t, v that are not Absent
mandatory_part(h, l, s, t, v) ==
    LET c == [k \in gelf_fields |->
                CASE k = host -> h
                  [] k = level -> l
                  [] k = short_message -> s
                  [] k = timestamp -> t
                  [] k = version -> v]
    IN  [k \in {f \in gelf_fields : c[f] # Absent} |-> c[k]]

MandatoryParts ==
    {mandatory_part(h, l, s, t, v) :
        h \in HostValues, l \in LevelValues, s \in ShortMessageValues,
        t \in TimestampValues, v \in VersionValues}

ExtraParts ==
    UNION {[S -> ExtraValues] : S \in {T \in SUBSET ExtraKeys : Cardinality(T) <= MaxExtra}}

merge(m, e) == [k \in (DOMAIN m) \cup (DOMAIN e) |-> IF k \in DOMAIN m THEN m[k] ELSE e[k]]

\* the maps handed to to_gelf
RawDocuments == {merge(m, e) : m \in MandatoryParts, e \in ExtraParts}

\* the byte buffers handed to from_slice: bytes that are not JSON, JSON that
\* is not an object, and the JSON text of every document
Buffers ==
    {Garbage, Json(Null), Json(Array(<<>>))} \cup {Json(Object(d)) : d \in RawDocuments}

(***************************************************************************)
(* The reader: one buffer is read (from_slice), the record is written as   *)
(* text (to_string, as print does) and the text is read again.             *)
(***************************************************************************)
PoolIdle ==
    /\ mailbox = <<>>
    /\ workers = [w \in 1..Threads |-> [state |-> "idle"]]
    /\ requests = <<>>
    /\ replies = <<>>

Init ==
    /\ buf \in Buffers
    /\ result = None
    /\ text = None
    /\ reparsed = None
    /\ pc = "start"
    /\ PoolIdle

\* GelfDataWrapper::from_slice(buf)
FromSlice ==
    /\ pc = "start"
    /\ result' = from_slice(buf)
    /\ pc' = IF result'.kind = "Panic" THEN "panicked" ELSE "read"
    /\ UNCHANGED <<buf, text, reparsed, pool_vars>>

\* GelfDataWrapper::to_string on the wrapper that from_slice returned
ToText ==
    /\ pc = "read"
    /\ result.kind = "Ok"
    /\ text' = to_string(result.val)
    /\ pc' = "written"
    /\ UNCHANGED <<buf, result, reparsed, pool_vars>>

\* GelfDataWrapper::from_slice on the text of the record
ReadAgain ==
    /\ pc = "written"
    /\ reparsed' = from_slice(text)
    /\ pc' = "done"
    /\ UNCHANGED <<buf, result, text, pool_vars>>

Next == FromSlice \/ ToText \/ ReadAgain

Spec == Init /\ [][Next]_vars

(***************************************************************************)
(* The pool: GelfReaderActor::new(threads) starts the worker threads of a  *)
(* SyncArbiter.  A send puts the message, with the channel its reply is    *)
(* sent on, in the mailbox the threads share; a thread takes one message,  *)
(* runs the handler to its end and sends what it returned on the channel   *)
(* of that message.  replies[i] is what has arrived on the channel of the  *)
(* i-th message sent.                                                      *)
(***************************************************************************)
\* a message in the shape of the one of test_actor
gelf_message(h, l, extra) ==
    Json(Object(merge(mandatory_part(String(h), Number(PosInt(l)), String(<<"m">>),
                                     Number(PosInt(1582213226)), String(<<"1", ".", "1">>)),
                      extra)))

\* messages that follow the GELF schema
WellFormedBuffers ==
    {gelf_message(<<"a">>, 5, [k \in {<<"_", "a">>} |-> String(<<"x">>)]),
     gelf_message(<<"b">>, 3, [k \in {<<"c">>} |-> Number(PosInt(2))])}

\* messages that do not: not JSON, a mandatory field missing, a key of
\* length zero
IllFormedBuffers ==
    {Garbage,
     Json(Object([k \in {host} |-> String(<<"a">>)])),
     gelf_message(<<"a">>, 5, [k \in {<<>>} |-> Null])}

PoolInit ==
    /\ buf = Garbage
    /\ result = None
    /\ text = None
    /\ reparsed = None
    /\ pc = "pool"
    /\ PoolIdle

\* handle, were a slice other than the message's read
handle_empty(msg) == from_slice(Garbage)

\* Handler<GelfMessage>::handle
handle(msg) == from_slice(msg)

\* the messages sent to the pool in the model
PoolBuffers == WellFormedBuffers \cup IllFormedBuffers

\* what the handler does with each message of the model
Handled == [b \in PoolBuffers |-> handle(b)]

\* gelf_reader.send(GelfMessage(b)): the message is queued, whether or not a
\* thread is free
Send(b) ==
    /\ Len(requests) < MaxRequests
    /\ requests' = Append(requests, b)
    /\ replies' = Append(replies, <<>>)
    /\ mailbox' = Append(mailbox, [msg |-> b, tx |-> Len(requests) + 1])
    /\ UNCHANGED <<workers, reader_vars>>

\* an idle thread takes the oldest message of the mailbox
Recv(w) ==
    /\ workers[w].state = "idle"
    /\ mailbox # <<>>
    /\ workers' = [workers EXCEPT ![w] = [state |-> "busy", env |-> Head(mailbox)]]
    /\ mailbox' = Tail(mailbox)
    /\ UNCHANGED <<requests, replies, reader_vars>>

\* the handler returns: its result is sent on the channel of the message and
\* the thread is free again
HandleReturn(w) ==
    /\ workers[w].state = "busy"
    /\ LET env == workers[w].env
           r == Handled[env.msg]
       IN  /\ r.kind # "Panic"
           /\ replies' = [replies EXCEPT ![env.tx] = Append(@, r)]
    /\ workers' = [workers EXCEPT ![w] = [state |-> "idle"]]
    /\ UNCHANGED <<mailbox, requests, reader_vars>>

\* the handler panics.  Built to unwind, the thread ends and the channel of
\* the message is closed without a result; built to abort, the process ends
\* and every thread with it.
HandlePanic(w) ==
    /\ workers[w].state = "busy"
    /\ Handled[workers[w].env.msg].kind = "Panic"
    /\ \/ /\ workers' = [workers EXCEPT ![w] = [state |-> "dead"]]
          /\ replies' = [replies EXCEPT ![workers[w].env.tx] = Append(@, [kind |-> "Closed"])]
       \/ /\ workers' = [v \in 1..Threads |-> [state |-> "dead"]]
          /\ UNCHANGED replies
    /\ UNCHANGED <<mailbox, requests, reader_vars>>

PoolNext ==
    \/ \E b \in PoolBuffers : Send(b)
    \/ \E w \in 1..Threads : Recv(w)
    \/ \E w \in 1..Threads : HandleReturn(w)
    \/ \E w \in 1..Threads : HandlePanic(w)

PoolSpec == PoolInit /\ [][PoolNext]_vars

\* the pool when every message sent is well formed; the threads keep running
WellFormedNext ==
    \/ \E b \in WellFormedBuffers : Send(b)
    \/ \E w \in 1..Threads : Recv(w)
    \/ \E w \in 1..Threads : HandleReturn(w)

WellFormedSpec ==
    /\ PoolInit
    /\ [][WellFormedNext]_vars
    /\ \A w \in 1..Threads : WF_vars(Recv(w)) /\ WF_vars(HandleReturn(w))

(***************************************************************************)
(* What the claims speak of, for the reader.                               *)
(***************************************************************************)
\* the buffer holds a JSON object and from_slice has run on it
Classified == pc # "start" /\ buf.bytes = "json" /\ buf.doc.type = "Object"

\* the map that from_slice handed to to_gelf
InputDoc == buf.doc.m

\* to_gelf returned a record
Succeeded == Classified /\ result.kind = "Ok"

Prefixed(k) == k # <<>> /\ Head(k) = "_"

IsText(f) == f \in DOMAIN InputDoc /\ InputDoc[f].type = "String"

IsNumber(f) == f \in DOMAIN InputDoc /\ InputDoc[f].type = "Number"

\* the integer a JSON number denotes, when it denotes one of 0..7
Denotes(v, c) ==
    /\ v.type = "Number"
    /\ \/ v.n.kind = "PosInt" /\ v.n.n = c
       \/ v.n.kind = "Float" /\ ~v.n.neg /\ v.n.half = 0 /\ v.n.whole = c

\* the f64 f is the number n
SameNumber(f, n) ==
    CASE n.kind = "PosInt" -> ~f.neg /\ f.whole = n.n /\ f.half = 0
      [] n.kind = "NegInt" -> f.neg /\ f.whole = 0 - n.n /\ f.half = 0
      [] n.kind = "Float" -> f = n

IsError(r, e, f) == r.kind = "Err" /\ r.err.error = e /\ r.err.unexpected = f

IsMissing(r, f) == r.kind = "Err" /\ r.err.error = "missing_field" /\ r.err.field = f

C9_Original ==
    Succeeded =>
        /\ gelf_fields \cap DOMAIN result.val.meta = {}
        /\ gelf_fields \cap DOMAIN result.val.mechanism_data = {}

\* C9, amended: in every record returned, no mandatory name is a key of
\* mechanism_data, and a mandatory name is a key of meta exactly when the
\* input has that name with an underscore in front.
C9_Amended ==
    Succeeded =>
        /\ gelf_fields \cap DOMAIN result.val.mechanism_data = {}
        /\ \A f \in gelf_fields :
              f \in DOMAIN result.val.meta <=> (<<"_">> \o f) \in DOMAIN InputDoc

\* a record was returned whose meta has the key "host"
C9_Witness == Succeeded /\ host \in DOMAIN result.val.meta

\* C10, as stated: every record returned has a host that is not empty.
C10_Original == Succeeded => result.val.host # <<>>

\* C10, amended: every record returned has as host the string that is the
\* input's host, which may be the empty string.
C10_Amended == Succeeded => IsText(host) /\ result.val.host = InputDoc[host].s

\* a record was returned for an input whose host is ""
C10_Witness == Succeeded /\ InputDoc[host] = String(<<>>) /\ result.val.host = <<>>

C2_ValidInputSucceeds ==
    (/\ Classified
     /\ IsText(host) /\ IsText(short_message) /\ IsText(version)
     /\ IsNumber(timestamp)
     /\ level \in DOMAIN InputDoc /\ \E c \in 0..7 : InputDoc[level] = Number(PosInt(c)))
    => /\ result.kind = "Ok"
       /\ result.val.host = InputDoc[host].s
       /\ result.val.short_message = InputDoc[short_message].s
       /\ result.val.version = InputDoc[version].s
       /\ SameNumber(result.val.timestamp, InputDoc[timestamp].n)
       /\ \E c \in 0..7 : InputDoc[level] = Number(PosInt(c)) /\ result.val.level = GelfLevel[c + 1]

\* the level of the input is a number that denotes one of 0..7
LevelInRange == level \in DOMAIN InputDoc /\ \E c \in 0..7 : Denotes(InputDoc[level], c)

\* the level of the input is a string of one digit of 0..7
LevelIsDigitString ==
    /\ IsText(level)
    /\ \E c \in 0..7 : InputDoc[level].s = <<DigitChar[c + 1]>>

\* C3: in an input of the five mandatory fields, the other four valid, a level that is a number or a
\* numeric string denoting an integer of 0..7 is accepted, and the record's
\* level is the variant with that code; every other level that is present
\* makes to_gelf fail with an invalid value for level.
C3_LevelAccepted ==
    (/\ Classified
     /\ IsText(host) /\ IsText(short_message) /\ IsText(version)
     /\ IsNumber(timestamp) /\ DOMAIN InputDoc = gelf_fields)
    => IF LevelInRange \/ LevelIsDigitString
       THEN /\ result.kind = "Ok"
            /\ \E c \in 0..7 :
                  /\ Denotes(InputDoc[level], c) \/ InputDoc[level] = String(<<DigitChar[c + 1]>>)
                  /\ result.val.level = GelfLevel[c + 1]
       ELSE IsError(result, "invalid_value", level)

\* the mandatory field f of the input has the type to_gelf asks for
ValidField(f) ==
    IF f = level THEN \E c \in 0..7 : InputDoc[level] = Number(PosInt(c))
    ELSE IF f = timestamp THEN IsNumber(f)
    ELSE IsText(f)

\* C4: when one mandatory field is absent and the other four are valid,
\* to_gelf fails with that field missing; when host, short_message or version
\* is present and not a string, or timestamp present and not a number, and the
\* other four are valid, to_gelf fails with an invalid type that names the
\* field.
C4_FieldErrors ==
    Classified =>
        \A f \in gelf_fields :
            (\A g \in gelf_fields \ {f} : g \in DOMAIN InputDoc /\ ValidField(g)) =>
                /\ f \notin DOMAIN InputDoc => IsMissing(result, f)
                /\ (f \in DOMAIN InputDoc /\ f # level /\ ~ValidField(f)) =>
                        IsError(result, "invalid_type", f)

(***************************************************************************)
(* What the claims speak of, for the pool.                                 *)
(***************************************************************************)
\* the record that the well-formed message b asks for: the values of its own
\* fields
IsRecordOf(r, b) ==
    LET m == b.doc.m
    IN  /\ r.kind = "Ok"
        /\ String(r.val.host) = m[host]
        /\ String(r.val.short_message) = m[short_message]
        /\ String(r.val.version) = m[version]
        /\ SameNumber(r.val.timestamp, m[timestamp].n)
        /\ \E c \in 0..7 : m[level] = Number(PosInt(c)) /\ r.val.level = GelfLevel[c + 1]
        /\ \A k \in DOMAIN m :
              /\ Prefixed(k) => Tail(k) \in DOMAIN r.val.meta /\ r.val.meta[Tail(k)] = m[k]
              /\ (~Prefixed(k) /\ k \notin gelf_fields) =>
                    k \in DOMAIN r.val.mechanism_data /\ r.val.mechanism_data[k] = m[k]

\* no channel has had more than one reply, and every reply is the record of
\* the message sent with that channel
RepliesAreOwn ==
    \A i \in 1..Len(requests) :
        /\ Len(replies[i]) <= 1
        /\ Len(replies[i]) = 1 => IsRecordOf(replies[i][1], requests[i])

\* the i-th message, once sent, gets its reply
Answered(i) == (Len(requests) >= i) ~> (Len(requests) >= i /\ Len(replies[i]) = 1)

\* C7: of well-formed messages sent to the pool, more of them than threads
\* or not, every one gets exactly one reply in the end, the reply is the
\* record read from its own buffer, and none goes to the waiter of another
\* message.
C7_EveryMessageAnswered == []RepliesAreOwn /\ \A i \in 1..MaxRequests : Answered(i)

\* more messages than threads were sent, two of them different, and every
\* one has its reply
C7_Witness ==
    /\ Len(requests) > Threads
    /\ \E i, j \in 1..Len(requests) : requests[i] # requests[j]
    /\ \A i \in 1..Len(requests) : Len(replies[i]) = 1

\* C8: whatever the buffer, the handler ends by returning a record or an
\* error, and the thread that ran it is not lost to the pool: no thread is
\* dead, and what arrives on a channel is what a handler returned.
C8_NoThreadLost ==
    /\ \A w \in 1..Threads : workers[w].state # "dead"
    /\ \A i \in 1..Len(replies) : \A j \in 1..Len(replies[i]) :
          replies[i][j].kind \in {"Ok", "Err"}

====
